---- MODULE Spec2Model ----
(***************************************************************************)
(* graphql-validity: resolver interception and validation aggregation.     *)
(*                                                                         *)
(* The repository holds three generations of the interceptor:              *)
(*   "index"   src/unnamed/part_001 (index.ts: profiling, Data+Errors      *)
(*             unwrapping, context found through arg.rootValue)             *)
(*   "express" src/src/schema-wrapper.ts lines 1-323 (context found on the *)
(*             request argument, parent type name captured at wrap time)   *)
(*   "legacy"  src/src/schema-wrapper.ts lines 324-400 (one module-level    *)
(*             validationResults list, no global validators, no config)    *)
(* A behaviour runs one of them; `variant` says which.                     *)
(***************************************************************************)
EXTENDS Integers, Sequences, FiniteSets, TLC

(* ------------------------------ bounds -------------------------------- *)
\* number of resolver invocations of a behaviour
NumInv == 2
\* longest list of violations one validator call (or one Data+Errors result) carries
MaxViol == 1
\* largest value of the Date.now() clock
MaxClock == 2
\* most calls of the express wrapExtension(request) for one request
MaxExtensions == 1

(* ------------------------------ inputs -------------------------------- *)
Variants == {"index", "express", "legacy"}
Requests == {"A", "B"}
NoRequest == "none"
Invocations == 1..NumInv

\* The schema: object type P with fields a (returns T) and b (returns U),
\* and scalar S, which exposes no getFields.
Fields == {"a", "b"}
Types == {"P", "S"}
Schema == "schema"
Entities == {Schema} \cup Types \cup Fields
getTypeMap == Types
HasGetFields(t) == t = "P"
getFields(t) == IF t = "P" THEN {"a", "b"} ELSE {}
TypeName(t) == t
FieldType(f) == IF f = "a" THEN "T" ELSE "U"
FieldName(f) == f
\* info.parentType of an invocation of field f, as the execution engine passes it
AstParentType(f) == "P"
\* parentTypeName when no argument carries parentType: `undefined` in a string sum
Undefined == "undefined"

\* The registries a behaviour may start with.  A selector that is not in the
\* domain is unregistered.  In Registry2 v1 is registered under two selectors.
Registry1 == ("$" :> <<"g1", "g2">>) @@ ("P:a" :> <<"v1">>)
Registry2 == ("*" :> <<"v1">>) @@ ("T" :> <<"v2">>) @@ ("P:a" :> <<"v1">>)
Registries == {Registry1, Registry2}

\* what a throwing validator or resolver throws
Boom == [msg |-> "boom", id |-> 0]
NoError == [msg |-> "none", id |-> 0]

\* values a resolver returns: a bare value, or a DataValidationResult
Plain(d) == [dvr |-> FALSE, data |-> d, errors |-> <<>>]
NoValue == Plain("none")

\* the violations number from+1 .. from+n that invocation i produces
NewViolations(i, from, n) ==
    [j \in 1..n |-> [message |-> <<i, from + j>>, code |-> "internal"]]

\* an error the execution engine already put into the payload
ExistingError == [message |-> <<0, 0>>, path |-> "field"]
Bodies ==
    { [kind |-> "garbage", hasErrors |-> FALSE, errors |-> <<>>],
      [kind |-> "nodata", hasErrors |-> FALSE, errors |-> <<>>],
      [kind |-> "data", hasErrors |-> FALSE, errors |-> <<>>],
      [kind |-> "data", hasErrors |-> TRUE, errors |-> <<ExistingError>>] }
NoBody == [kind |-> "none", hasErrors |-> FALSE, errors |-> <<>>]

(* ------------------------------- state -------------------------------- *)
VARIABLES
    variant,                    \* which generation of the module runs
    config,                     \* the ValidityConfig passed to wrapResolvers
    FieldValidationDefinitions, \* the validator registry
    resolve,                    \* field -> does it have a resolver
    Processed,                  \* field -> field[Processed]
    layers,                     \* field -> interceptor closures around the original
    wrapParent,                 \* field -> parentTypeName its closure captured
    validity,                   \* request -> request.__graphQLValidity
    validationResults,          \* legacy: the array the module variable is bound to
    inv,                        \* invocation -> its position, locals and held references
    globalRun,                  \* request -> global validator calls made, in order
    now,                        \* Date.now()
    uuid,                       \* calls of uuid() so far
    response,                   \* request -> what res.send was given and passed on
    lastWrap                    \* the latest wrapResolvers call of the setup, and its effect

vars == <<variant, config, FieldValidationDefinitions, resolve, Processed, layers,
          wrapParent, validity, validationResults, inv, globalRun, now, uuid,
          response, lastWrap>>

\* the profiling records of a context the adapter has just created: none
NewProfilingData == <<>>

\* gen tells the context objects of one request apart: the gen-th object that
\* was assigned to request.__graphQLValidity (0: none yet)
NoValidity ==
    [created |-> FALSE, gen |-> 0, ___validationResults |-> <<>>,
     globalPresent |-> FALSE, ___globalValidationResults |-> <<>>,
     ___profilingData |-> NewProfilingData]

\* { ___validationResults: [], ___globalValidationResults: undefined }: a new
\* object with a new list, assigned in place of context c
NewValidity(c) == [NoValidity EXCEPT !.created = TRUE, !.gen = c.gen + 1]

\* legacy `validationResults = []`: the module variable is bound to a new
\* array, the id-th one; list is what that array holds
NewArray(id) == [id |-> id, list |-> <<>>]

Idle ==
    [pc |-> "idle", field |-> "a", req |-> NoRequest, ast |-> FALSE,
     validators |-> <<>>, k |-> 0, pst |-> 0, vet |-> 0, n |-> 0,
     raw |-> NoValue, result |-> NoValue, threwAt |-> "none", cause |-> NoError,
     err |-> NoError, localRun |-> <<>>, origCalls |-> 0, returned |-> <<>>,
     profiled |-> 0, held |-> 0]

\* no wrapResolvers call yet, or the setup is over
NoWrap == [entity |-> "none", wrapped |-> {}, skipped |-> {}]

\* frozen: which of the host's objects rejects an assignment; middleware:
\* calls of graphQLValidityMiddleware the host made; next: calls of next();
\* installed: res.send is the patched function; sends: calls of the
\* original send; out: what the original send was given; extensions: calls of
\* the express wrapExtension(request); extended: the result object as the
\* function such a call returned left it
NoResponse ==
    [frozen |-> "none", middleware |-> 0, next |-> 0, installed |-> FALSE,
     sent |-> FALSE,
     body |-> NoBody, out |-> NoBody, sends |-> 0, extensions |-> 0,
     extended |-> NoBody]

\* where the body of the middleware throws: nowhere, at `req.__graphQLValidity = ..`
\* (a frozen request), or at `res.send = ..` (a frozen response)
InstallFailures == {"none", "req", "res"}

\* the ids a call of uuid() may return; the generator is ./uuid, outside the
\* module, and may return an id it returned before
Ids == 1..NumInv

Configs ==
    [wrapErrors : BOOLEAN, enableProfiling : BOOLEAN]

Init ==
    /\ variant \in Variants
    /\ config \in Configs
    /\ ~config.enableProfiling
    /\ (variant = "legacy" => ~config.wrapErrors)
    /\ FieldValidationDefinitions \in Registries
    /\ resolve = [f \in Fields |-> f = "a"]
    /\ Processed = [f \in Fields |-> FALSE]
    /\ layers = [f \in Fields |-> 0]
    /\ wrapParent = [f \in Fields |-> ""]
    /\ validity = [r \in Requests |-> NoValidity]
    /\ validationResults = NewArray(0)
    /\ inv = [i \in Invocations |-> Idle]
    /\ globalRun = [r \in Requests |-> <<>>]
    /\ now = 0
    /\ uuid = 0
    /\ response = [r \in Requests |-> NoResponse]
    /\ lastWrap = NoWrap

(* ---------------------------- schema walker --------------------------- *)
\* The walker runs at setup time: before any request is served.
Setup ==
    /\ \A i \in Invocations : inv[i].pc = "idle"
    /\ \A r \in Requests :
          /\ ~validity[r].created /\ ~response[r].sent
          /\ response[r].middleware = 0 /\ response[r].next = 0

\* Requests are served once the schema is complete and wrapped: every field has
\* got its resolver and its interceptor.
Serving == \A f \in Fields : resolve[f] /\ layers[f] > 0

\* an early return that does not look for a resolver
SkipWrapMarkedOnly(f) == Processed[f]

\* an early return that does not look at the marker
SkipWrapUnmarked(f) == ~resolve[f]

\* wrapField's early return: if (field[Processed] || !resolve) return;
SkipWrap(f) == Processed[f] \/ ~resolve[f]

\* wrapField on every field of fs, each capturing parentTypeName
wrapField(fs, parentTypeName) ==
    LET W == {f \in fs : ~SkipWrap(f)} IN
    /\ Processed' = [f \in Fields |-> IF f \in W THEN TRUE ELSE Processed[f]]
    /\ layers' = [f \in Fields |-> IF f \in W THEN layers[f] + 1 ELSE layers[f]]
    /\ wrapParent' =
           [f \in Fields |->
               IF f \in W /\ variant # "index" THEN parentTypeName ELSE wrapParent[f]]

\* an early return with the accessor test inverted
SkipTypeInverted(t) == HasGetFields(t)

\* wrapType's early return; type[Processed] is read but never written by the code
SkipType(t) == ~HasGetFields(t)

\* the fields wrapType hands to wrapField
wrapType(t) == IF SkipType(t) THEN {} ELSE getFields(t)

\* wrapSchema: wrapType on every type of the type map
wrapSchema == UNION {wrapType(t) : t \in getTypeMap}

\* the fields a wrapResolvers call on entity hands to wrapField
Reached(entity) ==
    IF entity = Schema THEN wrapSchema
    ELSE IF entity \in Types THEN wrapType(entity)
    ELSE {entity}

\* wrapResolvers(entity, config): dispatch on the entity's constructor name.
\* ptn is config.parentTypeName (legacy: the parentTypeName parameter).
wrapResolvers(entity, ptn) ==
    /\ Setup
    /\ IF entity = Schema THEN wrapField(wrapSchema, "P")
       ELSE IF entity \in Types THEN wrapField(wrapType(entity), TypeName(entity))
       ELSE wrapField({entity}, ptn)
    /\ lastWrap' = [entity |-> entity,
                    wrapped |-> {f \in Fields : layers'[f] # layers[f]},
                    skipped |-> {f \in Reached(entity) : layers'[f] = layers[f]}]
    /\ UNCHANGED <<variant, config, FieldValidationDefinitions, resolve, validity,
                   validationResults, inv, globalRun, now, uuid, response>>

\* user code gives a field a resolver after the schema was built
AttachResolver(f) ==
    /\ Setup
    /\ ~resolve[f]
    /\ resolve' = [resolve EXCEPT ![f] = TRUE]
    /\ UNCHANGED <<variant, config, FieldValidationDefinitions, Processed, layers,
                   wrapParent, validity, validationResults, inv, globalRun, now,
                   uuid, response, lastWrap>>

(* ------------------------- validator selection ------------------------ *)
\* FieldValidationDefinitions[selector] || []
Lookup(selector) ==
    IF selector \in DOMAIN FieldValidationDefinitions
    THEN FieldValidationDefinitions[selector]
    ELSE <<>>

\* getValidators(field, parentTypeName): '*', then the return type, then Parent:field
getValidators(f, parentTypeName) ==
    [validators |->
         Lookup("*") \o Lookup(FieldType(f))
             \o Lookup(parentTypeName \o ":" \o FieldName(f)),
     globalValidators |-> Lookup("$")]

\* legacy wrapField: FieldValidationDefinitions[field.type]
\*                   || FieldValidationDefinitions[parentTypeName + ':' + field.name] || []
legacyValidators(f, parentTypeName) ==
    IF FieldType(f) \in DOMAIN FieldValidationDefinitions
    THEN FieldValidationDefinitions[FieldType(f)]
    ELSE Lookup(parentTypeName \o ":" \o FieldName(f))

\* the parentTypeName the closure of field f uses in an invocation:
\* index takes arg.parentType of the invocation, the others what wrapField captured
ParentTypeName(f, hasAst) ==
    IF variant = "index"
    THEN (IF hasAst THEN AstParentType(f) ELSE Undefined)
    ELSE wrapParent[f]

(* ------------------------- request context ---------------------------- *)
\* getValidationResults: the two lists of the context (the local list is
\* created by the middleware, so the `if (!validationResults)` branch is not taken)
getValidationResults(c) ==
    [validationResults |-> c.___validationResults,
     globalPresent |-> c.globalPresent,
     globalValidationResults |-> c.___globalValidationResults]

\* no check at all: every invocation makes a global run
GlobalAbsentAlways(c) == TRUE

\* a check that also takes an empty list for "not run yet"
GlobalAbsentOrEmpty(c) ==
    ~getValidationResults(c).globalPresent
        \/ Len(getValidationResults(c).globalValidationResults) = 0

\* if (!globalValidationResults): undefined is falsy, an array (also []) is truthy
GlobalAbsent(c) == ~getValidationResults(c).globalPresent

\* the list is left absent until the run is over
InitGlobalLate(c) == c

\* validity.___globalValidationResults = [];
InitGlobal(c) ==
    [c EXCEPT !.globalPresent = TRUE, !.___globalValidationResults = <<>>]

\* an assignment in place of the append
PushApplyReplace(list, items) == items

\* Array.prototype.push.apply(list, items)
PushApply(list, items) == list \o items

\* storeProfilingInfo(validity, path, profile)
storeProfilingInfo(c, path, profile) ==
    [c EXCEPT !.___profilingData = Append(@, [path |-> path, profile |-> profile])]

\* onUnhandledError(error): a new Error whose message carries id, the value
\* uuid() returned, and nothing of the original error
onUnhandledError(error, id) == [msg |-> "internal", id |-> id]

\* the calls of uuid() after a catch block ran: one more when
\* config.wrapErrors is set
AfterCatch == IF config.wrapErrors THEN uuid + 1 ELSE uuid

\* the ids the errors handed to callers carry so far
UsedIds == {inv[j].err.id : j \in {k \in Invocations : inv[k].err.msg = "internal"}}

\* what the next call of uuid() may return: an id it returned before, or a new
\* one (ids are names: a new one takes the least number not in use)
NextIds == {id \in Ids : id <= Cardinality(UsedIds) + 1}

(* ------------------------ the wrapped resolver ------------------------ *)
\* an interceptor that treats collected violations as fatal
callResolveIfValid(v) ==
    IF v.n > 0
    THEN [v EXCEPT !.pc = "rejected", !.err = Boom]
    ELSE [v EXCEPT !.pc = "resolve",
                   !.vet = IF variant = "index" THEN now ELSE 0,
                   !.origCalls = @ + 1]

\* const vet = Date.now(); await resolve.call(this, ...args)
callResolve(v) ==
    [v EXCEPT !.pc = "resolve",
              !.vet = IF variant = "index" THEN now ELSE 0,
              !.origCalls = @ + 1]

\* for (let validator of validators): call validator k and await it, or leave the loop.
\* legacy `push.apply(validationResults, await validator..)`: the first argument
\* is evaluated before the await, so the array the module variable is bound to
\* at the call of validator k is the one the pending push goes to
localLoop(v, k) ==
    IF k <= Len(v.validators)
    THEN [v EXCEPT !.pc = "local", !.k = k,
                   !.localRun = Append(@, v.validators[k]),
                   !.held = IF variant = "legacy" THEN validationResults.id ELSE @]
    ELSE callResolve([v EXCEPT !.k = 0])

\* a global loop that does not await its validators
globalLoopNoWait(v, k) == localLoop(v, 1)

\* for (let validator of globalValidators): call validator k and await it, or go on
globalLoop(v, k) ==
    IF k <= Len(Lookup("$"))
    THEN [v EXCEPT !.pc = "global", !.k = k]
    ELSE localLoop(v, 1)

\* an interceptor that, finding globalResults present, waits for a signal of
\* the global run that nothing sends
EnterAwaitGlobalRun(v, c) ==
    IF variant # "legacy" /\ v.req # NoRequest /\ ~GlobalAbsent(c)
    THEN [v |-> [v EXCEPT !.pc = "waiting"], c |-> c]
    ELSE IF variant = "legacy"
    THEN [v |-> localLoop(
                   [v EXCEPT !.validators =
                        legacyValidators(v.field, wrapParent[v.field])], 1),
          c |-> c]
    ELSE IF v.req = NoRequest
    THEN [v |-> callResolve(v), c |-> c]
    ELSE [v |-> globalLoop(
                   [v EXCEPT !.validators =
                        getValidators(v.field,
                                      ParentTypeName(v.field, v.ast)).validators], 1),
          c |-> InitGlobal(c)]

\* the interceptor from its entry to its first await, with context c found
\*   (c is the context of v.req; unused when no argument carries one)
Enter(v, c) ==
    IF variant = "legacy"
    THEN [v |-> localLoop(
                   [v EXCEPT !.validators =
                        legacyValidators(v.field, wrapParent[v.field])], 1),
          c |-> c]
    ELSE IF v.req = NoRequest
    THEN [v |-> callResolve(v), c |-> c]
    ELSE LET v1 == [v EXCEPT !.validators =
                        getValidators(v.field,
                                      ParentTypeName(v.field, v.ast)).validators]
         IN  IF GlobalAbsent(c)
             THEN [v |-> globalLoop(v1, 1), c |-> InitGlobal(c)]
             ELSE [v |-> localLoop(v1, 1), c |-> c]

\* a catch block that wraps whatever the config says
CatchWrapAlways(v, e, id) ==
    [v EXCEPT !.pc = "rejected", !.err = onUnhandledError(e, id)]

\* a catch block that always rethrows the original
CatchRethrow(v, e, id) == [v EXCEPT !.pc = "rejected", !.err = e]

\* catch (e) { if (config.wrapErrors) throw config.unhandledErrorWrapper(e); throw e; }
\* (the legacy catch rethrows e; it has no config, and Init gives it wrapErrors = false)
\* id is what uuid() returns if the wrapper calls it
Catch(v, e, id) ==
    [v EXCEPT !.pc = "rejected",
              !.err = IF config.wrapErrors THEN onUnhandledError(e, id) ELSE e]

\* invocation v throws e at its current await: the ghost fields record what was
\* thrown and where, the catch block decides what the caller receives
Throw(v, e, id) == [Catch(v, e, id) EXCEPT !.cause = e, !.threwAt = v.pc]

\* the ghost log of global validator calls: the step that left v at "global" made one
LogGlobal(i, v) ==
    globalRun' =
        IF v.pc = "global"
        THEN [globalRun EXCEPT ![v.req] = Append(@, <<i, Lookup("$")[v.k]>>)]
        ELSE globalRun

Context(r) == IF r = NoRequest THEN NoValidity ELSE validity[r]

SetContext(r, c) ==
    validity' = IF r = NoRequest THEN validity ELSE [validity EXCEPT ![r] = c]

\* the context object and the lists invocation v took at its entry are still
\* the ones its request carries
Current(v) == v.req # NoRequest /\ v.held = validity[v.req].gen

\* a write through the references v took at its entry: it shows in the
\* request's context while that is the object v found; after the context was
\* replaced it goes to the old object, which nothing reads any more
SetHeld(v, c) ==
    validity' = IF Current(v) THEN [validity EXCEPT ![v.req] = c] ELSE validity

\* field.resolve(...args) is called: the synchronous part up to the first await
Call(i, f, r, hasAst) ==
    /\ inv[i].pc = "idle"
    /\ \A j \in Invocations : j < i => inv[j].pc # "idle"
    /\ Serving
    /\ resolve[f]
    /\ r = NoRequest => variant # "legacy" /\ i = NumInv
    /\ r # NoRequest =>
          /\ ~response[r].sent
          /\ variant # "legacy" => validity[r].created
    /\ (variant # "index" \/ i < NumInv) => hasAst
    /\ r = "B" => \E j \in Invocations : j < i /\ inv[j].req = "A"
    /\ LET v0 == [Idle EXCEPT !.field = f, !.req = r, !.ast = hasAst,
                              !.pst = IF variant = "index" THEN now ELSE 0,
                              !.held = IF variant = "legacy" THEN 0
                                       ELSE Context(r).gen]
           e == Enter(v0, Context(r))
       IN  /\ inv' = [inv EXCEPT ![i] = e.v]
           /\ SetContext(r, e.c)
           /\ LogGlobal(i, e.v)
    /\ lastWrap' = NoWrap
    /\ UNCHANGED <<variant, config, FieldValidationDefinitions, resolve, Processed,
                   layers, wrapParent, validationResults, now, uuid, response>>

\* a global validator returns n violations: push them, go on with the loop
GlobalReturn(i, n) ==
    /\ inv[i].pc = "global"
    /\ LET v == inv[i]
           c == validity[v.req]
           items == NewViolations(i, v.n, n)
           c1 == [c EXCEPT !.___globalValidationResults = PushApply(@, items)]
           v1 == globalLoop([v EXCEPT !.n = @ + n], v.k + 1)
       IN  /\ inv' = [inv EXCEPT ![i] = v1]
           /\ SetHeld(v, c1)
           /\ LogGlobal(i, v1)
    /\ UNCHANGED <<variant, config, FieldValidationDefinitions, resolve, Processed,
                   layers, wrapParent, validationResults, now, uuid, response, lastWrap>>

\* a throw in the global run that puts globalResults back to absent
ValidatorThrowRollback(i) ==
    /\ inv[i].pc \in {"global", "local"}
    /\ \E id \in NextIds : inv' = [inv EXCEPT ![i] = Throw(inv[i], Boom, id)]
    /\ uuid' = AfterCatch
    /\ validity' =
           IF inv[i].pc = "global"
           THEN [validity EXCEPT ![inv[i].req].globalPresent = FALSE,
                                 ![inv[i].req].___globalValidationResults = <<>>]
           ELSE validity
    /\ UNCHANGED <<variant, config, FieldValidationDefinitions, resolve, Processed,
                   layers, wrapParent, validationResults, globalRun, now,
                   response, lastWrap>>

\* a throw that is swallowed: the loop goes on with the next validator
ValidatorThrowContinue(i) ==
    /\ inv[i].pc \in {"global", "local"}
    /\ LET v == [inv[i] EXCEPT !.threwAt = inv[i].pc, !.cause = Boom]
           v1 == IF v.pc = "global" THEN globalLoop(v, v.k + 1)
                 ELSE localLoop(v, v.k + 1)
       IN  /\ inv' = [inv EXCEPT ![i] = v1]
           /\ LogGlobal(i, v1)
    /\ UNCHANGED <<variant, config, FieldValidationDefinitions, resolve, Processed,
                   layers, wrapParent, validity, validationResults, now, uuid,
                   response, lastWrap>>

\* a validator (global or local) throws
ValidatorThrow(i) ==
    /\ inv[i].pc \in {"global", "local"}
    /\ \E id \in NextIds : inv' = [inv EXCEPT ![i] = Throw(inv[i], Boom, id)]
    /\ uuid' = AfterCatch
    /\ UNCHANGED <<variant, config, FieldValidationDefinitions, resolve, Processed,
                   layers, wrapParent, validity, validationResults, globalRun, now,
                   response, lastWrap>>

\* a local validator returns n violations: push them, go on with the loop
LocalReturn(i, n) ==
    /\ inv[i].pc = "local"
    /\ LET v == inv[i]
           items == NewViolations(i, v.n, n)
           v1 == localLoop([v EXCEPT !.n = @ + n, !.returned = @ \o items], v.k + 1)
       IN  /\ inv' = [inv EXCEPT ![i] = v1]
           /\ IF variant = "legacy"
              THEN /\ validationResults' =
                          IF v.held = validationResults.id
                          THEN [validationResults EXCEPT
                                    !.list = PushApply(@, items)]
                          ELSE validationResults
                   /\ UNCHANGED validity
              ELSE /\ SetHeld(v, [validity[v.req] EXCEPT
                                      !.___validationResults = PushApply(@, items)])
                   /\ UNCHANGED validationResults
    /\ UNCHANGED <<variant, config, FieldValidationDefinitions, resolve, Processed,
                   layers, wrapParent, globalRun, now, uuid, response, lastWrap>>

\* what the original resolver of invocation i may return
ReturnValues(i) ==
    {Plain("x")} \cup
    IF variant = "index"
    THEN {[dvr |-> TRUE, data |-> "x", errors |-> NewViolations(i, inv[i].n, n)] :
             n \in 0..MaxViol}
    ELSE {}

\* no unwrapping: the DataValidationResult itself is returned
UnwrapNothing(resolveOutput) == resolveOutput

\* result = resolveOutput; if (resolveOutput instanceof DataValidationResult) result = resolveOutput.data
Unwrap(resolveOutput) ==
    IF resolveOutput.dvr THEN Plain(resolveOutput.data) ELSE resolveOutput

\* the context after the unwrap step: the errors of a DataValidationResult are pushed
\* when a context was found and resolveOutput.errors.length is not 0
UnwrapErrors(c, found, resolveOutput) ==
    IF resolveOutput.dvr /\ found /\ Len(resolveOutput.errors) # 0
    THEN [c EXCEPT !.___validationResults = PushApply(@, resolveOutput.errors)]
    ELSE c

\* a profile whose totalExecution forgets to take the validation time off
ProfileTotalIsExecution(f, pst, vet, eet) ==
    [name |-> FieldName(f), validation |-> vet - pst, execution |-> eet - pst,
     fieldsExecution |-> 0, totalExecution |-> eet - pst]

\* the profile of an invocation that started at pst, validated until vet, ended at eet
Profile(f, pst, vet, eet) ==
    [name |-> FieldName(f), validation |-> vet - pst, execution |-> eet - pst,
     fieldsExecution |-> 0, totalExecution |-> (eet - pst) - (vet - pst)]

\* a recorder that does not look for the context
ProfilingUnchecked(c, found, v, eet) ==
    IF config.enableProfiling /\ v.ast
    THEN storeProfilingInfo(c, <<AstParentType(v.field), v.field>>,
                            Profile(v.field, v.pst, v.vet, eet))
    ELSE c

\* try { if (validity && config.enableProfiling) storeProfilingInfo(validity, ast.path, ..) }
\* catch (err) { console.error(..) }: ast.path throws when no argument carried parentType
Profiling(c, found, v, eet) ==
    IF found /\ config.enableProfiling /\ v.ast
    THEN storeProfilingInfo(c, <<AstParentType(v.field), v.field>>,
                            Profile(v.field, v.pst, v.vet, eet))
    ELSE c

\* what the recorder throws when no argument carried parentType: ast is undefined
ProfilingFailed == [msg |-> "ast is undefined", id |-> 0]

\* a recorder without its own try/catch: the failure reaches the outer catch
AfterProfilingUncaught(v, found) ==
    IF found /\ config.enableProfiling /\ ~v.ast
    THEN Throw([v EXCEPT !.pc = "resolve"], ProfilingFailed, 1)
    ELSE v

\* the invocation after the recorder's try { .. } catch (err) { console.error(..) }:
\* a failure of the recorder is logged and the invocation goes on to `return result`
AfterProfiling(v, found) == v

\* the original resolver returns resolveOutput: unwrap, profile, return
ResolveReturn(i, resolveOutput) ==
    /\ inv[i].pc = "resolve"
    /\ resolveOutput \in ReturnValues(i)
    /\ LET v == inv[i]
           found == v.req # NoRequest
           c == Context(v.req)
       IN  IF variant = "index"
           THEN LET c1 == UnwrapErrors(c, found, resolveOutput)
                    c2 == Profiling(c1, found, v, now)
                IN  /\ inv' = [inv EXCEPT ![i] =
                                 AfterProfiling(
                                     [v EXCEPT !.pc = "done", !.raw = resolveOutput,
                                               !.result = Unwrap(resolveOutput),
                                               !.n = @ + Len(resolveOutput.errors),
                                               !.returned =
                                                   IF found
                                                   THEN @ \o resolveOutput.errors
                                                   ELSE @,
                                               !.profiled =
                                                   Len(c2.___profilingData)
                                                       - Len(c1.___profilingData)],
                                     found)]
                    /\ IF found THEN SetHeld(v, c2) ELSE UNCHANGED validity
           ELSE /\ inv' = [inv EXCEPT ![i] =
                             [v EXCEPT !.pc = "done", !.raw = resolveOutput,
                                       !.result = resolveOutput]]
                /\ UNCHANGED validity
    /\ UNCHANGED <<variant, config, FieldValidationDefinitions, resolve, Processed,
                   layers, wrapParent, validationResults, globalRun, now, uuid,
                   response, lastWrap>>

\* a throwing resolver whose invocation is profiled all the same, as by a
\* recorder placed in a finally block
ResolveThrowProfiled(i) ==
    /\ inv[i].pc = "resolve"
    /\ \E id \in NextIds : inv' = [inv EXCEPT ![i] = Throw(inv[i], Boom, id)]
    /\ uuid' = AfterCatch
    /\ IF inv[i].req # NoRequest
       THEN SetHeld(inv[i], Profiling(validity[inv[i].req], TRUE, inv[i], now))
       ELSE UNCHANGED validity
    /\ UNCHANGED <<variant, config, FieldValidationDefinitions, resolve, Processed,
                   layers, wrapParent, validationResults, globalRun, now,
                   response, lastWrap>>

\* the original resolver throws
ResolveThrow(i) ==
    /\ inv[i].pc = "resolve"
    /\ \E id \in NextIds : inv' = [inv EXCEPT ![i] = Throw(inv[i], Boom, id)]
    /\ uuid' = AfterCatch
    /\ UNCHANGED <<variant, config, FieldValidationDefinitions, resolve, Processed,
                   layers, wrapParent, validity, validationResults, globalRun, now,
                   response, lastWrap>>

InFlight(i) == inv[i].pc \in {"global", "local", "resolve"}

\* Date.now() advances; only a profiling interceptor reads it
Tick ==
    /\ now < MaxClock
    /\ variant = "index" /\ config.enableProfiling
    /\ \E i \in Invocations : InFlight(i)
    /\ now' = now + 1
    /\ UNCHANGED <<variant, config, FieldValidationDefinitions, resolve, Processed,
                   layers, wrapParent, validity, validationResults, inv, globalRun,
                   uuid, response, lastWrap>>

(* ------------------------ adapter and merger -------------------------- *)
\* a middleware whose next() is the last statement of the try block: it is
\* not reached when an assignment throws
MiddlewareNextInTry(resp) ==
    [resp EXCEPT !.installed = (resp.frozen = "none"),
                 !.next = IF resp.frozen = "none" THEN @ + 1 ELSE @]

\* the host's objects after the body of graphQLValidityMiddleware: res.send is
\* patched unless an assignment threw (the catch block logs the error), and
\* the finally block calls next() in either case
Middleware(resp) ==
    [resp EXCEPT !.installed = (resp.frozen = "none"), !.next = @ + 1]

\* graphQLValidityMiddleware(req, res, next), called by the host once per
\* request: a fresh context on the request and the patched res.send; whatever
\* throws on the way is logged, and the finally block calls next()
graphQLValidityMiddleware(r) ==
    /\ variant # "legacy"
    /\ Serving
    /\ response[r].middleware = 0
    /\ r = "B" => \E i \in Invocations : inv[i].pc # "idle" /\ inv[i].req = "A"
    /\ validity' = IF response[r].frozen = "req" THEN validity
                   ELSE [validity EXCEPT ![r] = NewValidity(@)]
    /\ response' = [response EXCEPT
                        ![r] = [Middleware(@) EXCEPT !.middleware = @ + 1]]
    /\ lastWrap' = NoWrap
    /\ UNCHANGED <<variant, config, FieldValidationDefinitions, resolve, Processed,
                   layers, wrapParent, validationResults, inv, globalRun, now, uuid>>

\* error => ({ message: error.message })
Project(error) == [message |-> error.message]

ProjectAll(list) == [j \in 1..Len(list) |-> Project(list[j])]

\* a merger that puts the global results before the local ones
getResponseValidationResultsGlobalFirst(c, data) ==
    [data EXCEPT
        !.hasErrors = TRUE,
        !.errors = (IF data.hasErrors THEN data.errors ELSE <<>>)
                       \o ProjectAll(IF c.globalPresent
                                     THEN c.___globalValidationResults ELSE <<>>)
                       \o ProjectAll(c.___validationResults)]

\* getResponseValidationResults(validity, data): data.errors = (data.errors || [])
\*   .concat(local projected).concat((global || []) projected)
getResponseValidationResults(c, data) ==
    [data EXCEPT
        !.hasErrors = TRUE,
        !.errors = (IF data.hasErrors THEN data.errors ELSE <<>>)
                       \o ProjectAll(c.___validationResults)
                       \o ProjectAll(IF c.globalPresent
                                     THEN c.___globalValidationResults ELSE <<>>)]

\* the execution engine ends a request only when none of its resolvers is pending
Settled(r) == \A i \in Invocations : inv[i].req = r => ~InFlight(i)

\* a patched send that merges whenever the body parses
patchedSendAnyJson(c, body) ==
    IF body.kind # "garbage" THEN getResponseValidationResults(c, body) ELSE body

\* what the patched res.send(data) hands to originalSend: JSON.parse(data) throws on
\* a body that is no JSON, and the merged, re-serialised result replaces the
\* argument only if (result.data)
patchedSend(c, body) ==
    IF body.kind = "data" THEN getResponseValidationResults(c, body) ELSE body

\* res.send(data) at the end of the request: the patched function when the
\* middleware installed it, the original send otherwise
Send(r, body) ==
    /\ variant # "legacy"
    /\ response[r].next = 1 \/ validity[r].created
    /\ ~response[r].sent /\ Settled(r)
    /\ body \in Bodies
    /\ r = "B" => body.kind = "data"
    /\ response' =
           [response EXCEPT ![r].sent = TRUE, ![r].body = body,
                            ![r].out = IF response[r].installed
                                       THEN patchedSend(validity[r], body)
                                       ELSE body,
                            ![r].sends = @ + 1]
    /\ UNCHANGED <<variant, config, FieldValidationDefinitions, resolve, Processed,
                   layers, wrapParent, validity, validationResults, inv, globalRun,
                   now, uuid, lastWrap>>

\* the execution results an extension function is given: objects, with a data
\* member or without one
Results == {b \in Bodies : b.kind \in {"nodata", "data"}}

\* express wrapExtension(request), deprecated: a new context object is assigned
\* to the request, whatever the request carried before; next() is not called
\* and res.send is not patched. On a request that rejects the assignment the
\* call throws and nothing is changed.
wrapExtensionRequest(r) ==
    /\ variant = "express"
    /\ Serving
    /\ response[r].frozen # "req"
    /\ response[r].extensions < MaxExtensions
    /\ validity' = [validity EXCEPT ![r] = NewValidity(@)]
    /\ response' = [response EXCEPT ![r].extensions = @ + 1]
    /\ lastWrap' = NoWrap
    /\ UNCHANGED <<variant, config, FieldValidationDefinitions, resolve, Processed,
                   layers, wrapParent, validationResults, inv, globalRun, now, uuid>>

\* the function express wrapExtension(request) returned, called with { result }
\* by the execution engine, once per request, at any moment:
\* getResponseValidationResults(request.__graphQLValidity, result), with no
\* test of result.data
wrapExtensionResult(r, result) ==
    /\ variant = "express"
    /\ response[r].extensions > 0
    /\ response[r].extended = NoBody
    /\ result \in Results
    /\ response' =
           [response EXCEPT ![r].extended =
                                getResponseValidationResults(validity[r], result)]
    /\ UNCHANGED <<variant, config, FieldValidationDefinitions, resolve, Processed,
                   layers, wrapParent, validity, validationResults, inv, globalRun,
                   now, uuid, lastWrap>>

\* legacy wrapExtension({ result }): result.errors = validationResults projected,
\* with no test of result.data; validationResults = []
wrapExtension(r, body) ==
    /\ variant = "legacy"
    /\ Serving
    /\ ~response[r].sent /\ Settled(r)
    /\ body \in Results
    /\ response' =
           [response EXCEPT ![r].sent = TRUE, ![r].body = body,
                            ![r].out =
                                [body EXCEPT !.hasErrors = TRUE,
                                             !.errors =
                                                 ProjectAll(validationResults.list)],
                            ![r].sends = @ + 1]
    /\ validationResults' = NewArray(validationResults.id + 1)
    /\ lastWrap' = NoWrap
    /\ UNCHANGED <<variant, config, FieldValidationDefinitions, resolve, Processed,
                   layers, wrapParent, validity, inv, globalRun, now, uuid>>

(* --------------------------- specification ---------------------------- *)
ParentTypeNames == {"P"}
\* the fields the explored queries select
Queried == {"a"}

Next ==
    \/ \E entity \in Entities, ptn \in ParentTypeNames :
          wrapResolvers(entity, ptn)
    \/ \E f \in Fields : AttachResolver(f)
    \/ \E i \in Invocations, f \in Queried, r \in Requests \cup {NoRequest},
          hasAst \in BOOLEAN : Call(i, f, r, hasAst)
    \/ \E i \in Invocations, n \in 0..MaxViol : GlobalReturn(i, n)
    \/ \E i \in Invocations, n \in 0..MaxViol : LocalReturn(i, n)
    \/ \E i \in Invocations : ValidatorThrow(i)
    \/ \E i \in Invocations : \E out \in ReturnValues(i) : ResolveReturn(i, out)
    \/ \E i \in Invocations : ResolveThrow(i)
    \/ \E r \in Requests : graphQLValidityMiddleware(r)
    \/ \E r \in Requests, body \in Bodies : Send(r, body)
    \/ \E r \in Requests, body \in Bodies : wrapExtension(r, body)

Spec == Init /\ [][Next]_vars

\* The await at which invocation i is suspended resumes: the validator or the
\* resolver it awaits returns or throws.
Resume(i) ==
    \/ \E n \in 0..MaxViol : GlobalReturn(i, n)
    \/ \E n \in 0..MaxViol : LocalReturn(i, n)
    \/ ValidatorThrow(i)
    \/ \E out \in ReturnValues(i) : ResolveReturn(i, out)
    \/ ResolveThrow(i)

\* Every validator call and every resolver call eventually returns or throws,
\* and the event loop eventually runs the continuation of a settled await.
SpecFair == Init /\ [][Next]_vars /\ \A i \in Invocations : WF_vars(Resume(i))

\* The interceptors that look for a per-request context, under every config
\* (config.enableProfiling set or not), with a clock that advances while
\* invocations are pending, and a registry with global and local validators.
InitProfiling ==
    /\ variant \in {"index", "express"}
    /\ config \in Configs
    /\ FieldValidationDefinitions = Registry1
    /\ resolve = [f \in Fields |-> f = "a"]
    /\ Processed = [f \in Fields |-> FALSE]
    /\ layers = [f \in Fields |-> 0]
    /\ wrapParent = [f \in Fields |-> ""]
    /\ validity = [r \in Requests |-> NoValidity]
    /\ validationResults = NewArray(0)
    /\ inv = [i \in Invocations |-> Idle]
    /\ globalRun = [r \in Requests |-> <<>>]
    /\ now = 0
    /\ uuid = 0
    /\ response = [r \in Requests |-> NoResponse]
    /\ lastWrap = NoWrap

NextProfiling ==
    \/ \E entity \in Entities, ptn \in ParentTypeNames :
          wrapResolvers(entity, ptn)
    \/ \E f \in Fields : AttachResolver(f)
    \/ \E i \in Invocations, f \in Queried, r \in Requests \cup {NoRequest},
          hasAst \in BOOLEAN : Call(i, f, r, hasAst)
    \/ \E i \in Invocations, n \in 0..MaxViol : GlobalReturn(i, n)
    \/ \E i \in Invocations, n \in 0..MaxViol : LocalReturn(i, n)
    \/ \E i \in Invocations : ValidatorThrow(i)
    \/ \E i \in Invocations : \E out \in ReturnValues(i) : ResolveReturn(i, out)
    \/ \E i \in Invocations : ResolveThrow(i)
    \/ \E r \in Requests : graphQLValidityMiddleware(r)
    \/ \E r \in Requests, body \in Bodies : Send(r, body)
    \/ Tick

SpecProfiling == InitProfiling /\ [][NextProfiling]_vars

\* the requests the host of SpecAdapter hands to wrapExtension(request)
Extended == {"A"}

\* The adapters of schema-wrapper.ts, the middleware and the deprecated
\* wrapExtension(request), which the host may call at any moment of a request,
\* on hosts whose request or response object may reject an assignment.
InitAdapter ==
    /\ variant = "express"
    /\ config \in Configs
    /\ ~config.enableProfiling /\ ~config.wrapErrors
    /\ FieldValidationDefinitions = Registry1
    /\ resolve = [f \in Fields |-> f = "a"]
    /\ Processed = [f \in Fields |-> FALSE]
    /\ layers = [f \in Fields |-> 0]
    /\ wrapParent = [f \in Fields |-> ""]
    /\ validity = [r \in Requests |-> NoValidity]
    /\ validationResults = NewArray(0)
    /\ inv = [i \in Invocations |-> Idle]
    /\ globalRun = [r \in Requests |-> <<>>]
    /\ now = 0
    /\ uuid = 0
    /\ response \in [Requests -> {[NoResponse EXCEPT !.frozen = fz] :
                                     fz \in InstallFailures}]
    /\ lastWrap = NoWrap

NextAdapter ==
    \/ \E entity \in Entities, ptn \in ParentTypeNames :
          wrapResolvers(entity, ptn)
    \/ \E f \in Fields : AttachResolver(f)
    \/ \E i \in Invocations, f \in Queried, r \in Requests,
          hasAst \in BOOLEAN : Call(i, f, r, hasAst)
    \/ \E i \in Invocations, n \in 0..MaxViol : GlobalReturn(i, n)
    \/ \E i \in Invocations, n \in 0..MaxViol : LocalReturn(i, n)
    \/ \E i \in Invocations : ValidatorThrow(i)
    \/ \E i \in Invocations : \E out \in ReturnValues(i) : ResolveReturn(i, out)
    \/ \E i \in Invocations : ResolveThrow(i)
    \/ \E r \in Requests : graphQLValidityMiddleware(r)
    \/ \E r \in Requests, body \in Bodies : Send(r, body)
    \/ \E r \in Extended : wrapExtensionRequest(r)
    \/ \E r \in Extended, result \in Results : wrapExtensionResult(r, result)

SpecAdapter == InitAdapter /\ [][NextAdapter]_vars

(* ------------------------------ claims -------------------------------- *)
\* the invocations that were made with the context of request r
OfRequest(r) == {i \in Invocations : inv[i].pc # "idle" /\ inv[i].req = r}

\* the names of the global validators called for request r, in call order
GlobalCalls(r) == [j \in 1..Len(globalRun[r]) |-> globalRun[r][j][2]]

IsPrefix(s, t) == Len(s) <= Len(t) /\ \A j \in 1..Len(s) : s[j] = t[j]

\* the first invocation made for request r (invocations are numbered in call order)
First(r) == CHOOSE i \in OfRequest(r) : \A j \in OfRequest(r) : i <= j

\* C1 as stated: once the wrapped invocations sharing a request's context have
\* settled, every validator registered under '$' has been called exactly once
\* for that request.
C1_GlobalOnceAsStated ==
    \A r \in Requests :
        (variant # "legacy" /\ OfRequest(r) # {} /\ Settled(r))
            => GlobalCalls(r) = Lookup("$")

\* C1 amended: for every interleaving, the global validators of a request are
\* called at most once each, in registration order, all by the first invocation
\* of the request; once the invocations have settled each was called exactly
\* once provided no global validator threw (a throw ends the run, and the
\* validators registered after the throwing one are never called).
C1_GlobalOnce ==
    \A r \in Requests :
        variant # "legacy" =>
            /\ IsPrefix(GlobalCalls(r), Lookup("$"))
            /\ \A j \in 1..Len(globalRun[r]) : globalRun[r][j][1] = First(r)
            /\ (OfRequest(r) # {} /\ Settled(r)
                  /\ \A i \in OfRequest(r) : inv[i].threwAt # "global")
                   => GlobalCalls(r) = Lookup("$")

\* two invocations of request A have both returned, the second having passed
\* its local validator before the first (which made the global run) passed
\* its own, and g1 and g2 were called once each
C1_Witness ==
    /\ variant = "index"
    /\ \A i \in {1, 2} : inv[i].pc = "done" /\ inv[i].req = "A"
    /\ GlobalCalls("A") = <<"g1", "g2">>
    /\ Len(validity["A"].___validationResults) = 2
    /\ validity["A"].___validationResults[1].message[1] = 2
    /\ validity["A"].___validationResults[2].message[1] = 1

\* C2: whatever wrapResolvers calls were made on a field, its type or the
\* schema, a field carries at most one interceptor, exactly one when it is
\* marked, and none when it is not; an invocation that returned called the
\* original once and each selected validator once per registration.
C2_Idempotent ==
    /\ \A f \in Fields :
          /\ layers[f] <= 1
          /\ Processed[f] <=> layers[f] = 1
    /\ \A i \in Invocations :
          inv[i].pc = "done" =>
              /\ inv[i].origCalls = 1
              /\ inv[i].localRun = inv[i].validators

\* a wrapResolvers call reached field a, which was wrapped before, and left it
\* with its one interceptor
C2_Witness ==
    /\ lastWrap.entity = Schema
    /\ "a" \in lastWrap.skipped
    /\ Processed["a"] /\ layers["a"] = 1

\* the local validators the claim selects for field f of parent type P
Precedence(f) ==
    Lookup("*") \o Lookup(FieldType(f)) \o Lookup("P" \o ":" \o FieldName(f))

\* C3: the local validators a wrapped invocation runs are lookup('*'), then
\* lookup(T), then lookup(P:f), all three always included, once per
\* registration (for an invocation that has a context and whose arguments name
\* the parent type).
C3_SelectionPrecedence ==
    \A i \in Invocations :
        (/\ inv[i].pc # "idle"
         /\ variant # "legacy" => inv[i].req # NoRequest
         /\ variant = "index" => inv[i].ast)
            => /\ inv[i].validators = Precedence(inv[i].field)
               /\ IsPrefix(inv[i].localRun, Precedence(inv[i].field))
               /\ inv[i].pc = "done" => inv[i].localRun = Precedence(inv[i].field)

\* the messages of list that were not produced by an invocation of request r
Foreign(r, list) ==
    {j \in 1..Len(list) : list[j].message[1] \notin OfRequest(r) \cup {0}}

\* C4: a violation produced during request A is appended only to A's context
\* and shows only in A's merged response errors, never in B's.
C4_Isolation ==
    \A r \in Requests :
        /\ Foreign(r, validity[r].___validationResults) = {}
        /\ Foreign(r, validity[r].___globalValidationResults) = {}
        /\ response[r].sent => Foreign(r, response[r].out.errors) = {}

\* the items of list that invocation i produced, in list order
From(i, list) ==
    LET Mine(e) == e.message[1] = i IN SelectSeq(list, Mine)

\* C5: when the invocations of a request have all returned, localResults holds
\* every violation a local validator call returned and every error of every
\* Data+Errors result exactly once, those of one invocation in the order the
\* invocation produced them.
C5_NoLostAppend ==
    \A r \in Requests :
        (variant # "legacy" /\ \A i \in OfRequest(r) : inv[i].pc = "done")
            => /\ \A i \in OfRequest(r) :
                     From(i, validity[r].___validationResults) = inv[i].returned
               /\ Foreign(r, validity[r].___validationResults) = {}
               /\ \A j, k \in 1..Len(validity[r].___validationResults) :
                     j # k => validity[r].___validationResults[j]
                                  # validity[r].___validationResults[k]

\* both invocations of request A returned, each having contributed two
\* violations, and the contributions are interleaved in localResults
C5_Witness ==
    /\ variant = "index"
    /\ \A i \in {1, 2} : inv[i].pc = "done" /\ inv[i].req = "A"
                            /\ Len(inv[i].returned) = 2
    /\ Len(validity["A"].___validationResults) = 4
    /\ validity["A"].___validationResults[1].message[1] = 2
    /\ validity["A"].___validationResults[2].message[1] = 1
    /\ validity["A"].___validationResults[3].message[1] = 2

\* C6: while a global validator of a request is awaited the request's
\* globalResults is present; it becomes present, as an empty list, in the very
\* step in which an invocation found it absent, and is never absent again.
C6_InitBeforeAwait ==
    /\ [](\A i \in Invocations :
             inv[i].pc = "global" => validity[inv[i].req].globalPresent)
    /\ [][\A r \in Requests :
             /\ validity[r].globalPresent => validity'[r].globalPresent
             /\ (~validity[r].globalPresent /\ validity'[r].globalPresent)
                   => /\ validity[r].created
                      /\ \E i \in Invocations :
                            /\ inv[i].pc = "idle" /\ inv'[i].pc # "idle"
                            /\ inv'[i].req = r
                            /\ validity'[r].___globalValidationResults = <<>>]_vars

\* the first invocation of request A awaits global validator g2 while the
\* second, which found globalResults present, already awaits the resolver
C6_Witness ==
    /\ inv[1].pc = "global" /\ inv[1].k = 2 /\ inv[1].req = "A"
    /\ inv[2].pc = "resolve" /\ inv[2].req = "A"
    /\ validity["A"].globalPresent

\* C7: the merger sets payload.errors to the existing errors (absent: none),
\* then localResults, then globalResults (absent: none), in order, each result
\* reduced to its message alone.
C7_MergeOrder ==
    \A r \in Requests :
        (/\ variant # "legacy" /\ response[r].installed
         /\ response[r].sent /\ response[r].body.kind = "data")
            => LET E == IF response[r].body.hasErrors
                        THEN response[r].body.errors ELSE <<>>
                   L == validity[r].___validationResults
                   G == IF validity[r].globalPresent
                        THEN validity[r].___globalValidationResults ELSE <<>>
                   out == response[r].out.errors
               IN  /\ response[r].out.hasErrors
                   /\ Len(out) = Len(E) + Len(L) + Len(G)
                   /\ \A j \in 1..Len(E) : out[j] = E[j]
                   /\ \A j \in 1..Len(L) :
                         out[Len(E) + j] = [message |-> L[j].message]
                   /\ \A j \in 1..Len(G) :
                         out[Len(E) + Len(L) + j] = [message |-> G[j].message]

\* a payload with data and one existing error was merged with a context that
\* holds local and global results
C7_Witness ==
    /\ response["A"].installed
    /\ response["A"].sent /\ response["A"].body.kind = "data"
    /\ response["A"].body.hasErrors
    /\ Len(validity["A"].___validationResults) >= 2
    /\ validity["A"].globalPresent
    /\ Len(validity["A"].___globalValidationResults) >= 1
    /\ Len(response["A"].out.errors) >= 4

\* C8: an invocation with a context is rejected only when a validator or the
\* resolver threw; otherwise, whatever violations were returned, it calls the
\* original resolver exactly once and returns its value.
C8_ViolationsNonFatal ==
    \A i \in Invocations :
        (variant # "legacy" /\ inv[i].req # NoRequest) =>
            /\ inv[i].pc = "rejected" => inv[i].cause # NoError
            /\ inv[i].origCalls <= 1
            /\ inv[i].pc = "done" =>
                  /\ inv[i].origCalls = 1
                  /\ inv[i].result.data = inv[i].raw.data

\* an invocation returned the resolver's value although its global and its
\* local validators returned violations
C8_Witness ==
    /\ inv[1].pc = "done" /\ inv[1].req = "A" /\ inv[1].origCalls = 1
    /\ inv[1].result.data = "x"
    /\ Len(inv[1].returned) >= 1
    /\ Len(validity["A"].___globalValidationResults) >= 1

\* C9: with a context, when the original resolver returns a Data+Errors result
\* the invocation returns its data and appends its errors, in order, to
\* localResults; any other value is returned as it is and localResults stays.
C9_Unwrap ==
    [][\A i \in Invocations :
          (/\ variant = "index" /\ inv[i].req # NoRequest
           /\ inv[i].pc = "resolve" /\ inv'[i].pc = "done")
              => LET out == inv'[i].raw
                     before == validity[inv[i].req].___validationResults
                     after == validity'[inv[i].req].___validationResults
                 IN  IF out.dvr
                     THEN /\ inv'[i].result = Plain(out.data)
                          /\ after = before \o out.errors
                     ELSE /\ inv'[i].result = out
                          /\ after = before]_vars

\* a resolver returned a Data+Errors result with one error: the invocation
\* returned the bare data and the error is the last entry of localResults
C9_Witness ==
    /\ variant = "index"
    /\ inv[1].pc = "done" /\ inv[1].req = "A"
    /\ inv[1].raw.dvr /\ Len(inv[1].raw.errors) = 1
    /\ inv[1].result = Plain("x")
    /\ Len(validity["A"].___validationResults) = 2
    /\ validity["A"].___validationResults[2] = inv[1].raw.errors[1]

\* C10: an invocation in which a validator or the resolver threw e never
\* returns a value; it rejects with unhandledErrorWrapper(e), which is not e and
\* carries an id uuid() returned and nothing of e's message, when wrapErrors is
\* set, and with e itself otherwise.
C10_ErrorWrapping ==
    \A i \in Invocations :
        /\ inv[i].cause # NoError =>
              /\ inv[i].pc = "rejected"
              /\ IF config.wrapErrors
                 THEN /\ inv[i].err # inv[i].cause
                      /\ inv[i].err.msg # inv[i].cause.msg
                      /\ \E id \in Ids :
                            inv[i].err = onUnhandledError(inv[i].cause, id)
                 ELSE inv[i].err = inv[i].cause
        /\ inv[i].pc = "done" => inv[i].cause = NoError /\ inv[i].err = NoError

\* with wrapErrors set, a global validator threw in one invocation and the
\* resolver in another: both callers got wrapped errors
C10_Witness ==
    /\ config.wrapErrors
    /\ inv[1].pc = "rejected" /\ inv[1].threwAt = "global"
    /\ inv[2].pc = "rejected" /\ inv[2].threwAt = "resolve"
    /\ inv[1].err.msg = "internal" /\ inv[2].err.msg = "internal"

\* the invocations made with arguments that carry no context
NoContext == {i \in Invocations : inv[i].pc # "idle" /\ inv[i].req = NoRequest}

\* C11: an invocation whose arguments carry no context calls no global and no
\* local validator, appends no profiling record, calls the original resolver
\* exactly once, and none of its steps changes a context or the log of global
\* validator calls.
C11_NoContextNoEffects ==
    /\ [](\A i \in NoContext :
             /\ inv[i].localRun = <<>> /\ inv[i].validators = <<>>
             /\ inv[i].returned = <<>>
             /\ inv[i].profiled = 0
             /\ inv[i].origCalls = 1
             /\ inv[i].pc \in {"resolve", "done", "rejected"}
             /\ \A r \in Requests : \A j \in 1..Len(globalRun[r]) :
                    globalRun[r][j][1] # i)
    /\ [][\A i \in Invocations :
             (inv'[i] # inv[i] /\ inv'[i].req = NoRequest)
                 => /\ validity' = validity
                    /\ validationResults' = validationResults
                    /\ globalRun' = globalRun]_vars

\* with profiling enabled, an invocation without a context, whose arguments
\* name the parent type, has returned, while request A's context holds the
\* results of another invocation and no profiling record of this one
C11_Witness ==
    /\ variant = "index" /\ config.enableProfiling
    /\ inv[NumInv].pc = "done" /\ inv[NumInv].req = NoRequest /\ inv[NumInv].ast
    /\ inv[NumInv].origCalls = 1
    /\ inv[1].pc = "done" /\ inv[1].req = "A"
    /\ Len(validity["A"].___validationResults) = 1
    /\ Len(validity["A"].___profilingData) = 1

\* C12 as stated: without a context the wrapped resolver returns exactly the
\* value the original returned, also a Data+Errors result, and rejects with
\* exactly the error the original threw, also when wrapErrors is set.
C12_TransparentAsStated ==
    \A i \in NoContext :
        /\ inv[i].pc = "done" => inv[i].result = inv[i].raw
        /\ inv[i].pc = "rejected" => inv[i].err = inv[i].cause

\* C12 amended: without a context the wrapped resolver returns the value the
\* original returned, except that a Data+Errors result is returned as its data
\* alone (its errors are dropped), and it rejects with the error the original
\* threw when wrapErrors is not set and with unhandledErrorWrapper of it when
\* wrapErrors is set.
C12_Transparent ==
    \A i \in NoContext :
        /\ inv[i].pc = "done" =>
              /\ inv[i].cause = NoError
              /\ inv[i].result =
                     IF inv[i].raw.dvr THEN Plain(inv[i].raw.data) ELSE inv[i].raw
        /\ inv[i].pc = "rejected" =>
              /\ inv[i].threwAt = "resolve" /\ inv[i].cause = Boom
              /\ IF config.wrapErrors
                 THEN \E id \in Ids :
                         inv[i].err = onUnhandledError(inv[i].cause, id)
                 ELSE inv[i].err = inv[i].cause

\* without a context, the original resolver returned a Data+Errors result with
\* one error: the caller received the bare data, and the context of request A
\* holds nothing but what A's own invocation put there
C12_Witness ==
    /\ variant = "index"
    /\ inv[NumInv].req = NoRequest /\ inv[NumInv].pc = "done"
    /\ inv[NumInv].raw.dvr /\ Len(inv[NumInv].raw.errors) = 1
    /\ inv[NumInv].result = Plain("x")
    /\ inv[1].req = "A" /\ inv[1].pc = "done"
    /\ validity["A"].___validationResults = inv[1].returned

\* C13: with profiling enabled and a context found, an invocation whose
\* recorder fails (no argument carries the field location) and whose original
\* resolver returned still returns the resolver's effective result; it is not
\* rejected, no record is appended, and unhandledErrorWrapper is not called for
\* it (uuid() is called only for invocations in which something else threw).
C13_ProfilingFailureRecovered ==
    /\ \A i \in Invocations :
          (/\ variant = "index" /\ config.enableProfiling
           /\ inv[i].req # NoRequest /\ ~inv[i].ast
           /\ inv[i].raw # NoValue)
              => /\ inv[i].pc = "done"
                 /\ inv[i].result = Unwrap(inv[i].raw)
                 /\ inv[i].err = NoError /\ inv[i].cause = NoError
                 /\ inv[i].profiled = 0
    /\ uuid = IF config.wrapErrors
              THEN Cardinality({i \in Invocations : inv[i].threwAt # "none"})
              ELSE 0

\* with profiling and wrapErrors set, the invocation whose arguments carry the
\* context but no field location returned the data of a Data+Errors result,
\* while the other invocation of the request left its profiling record
C13_Witness ==
    /\ variant = "index" /\ config.enableProfiling /\ config.wrapErrors
    /\ inv[NumInv].req = "A" /\ ~inv[NumInv].ast
    /\ inv[NumInv].pc = "done" /\ inv[NumInv].raw.dvr
    /\ inv[NumInv].result = Plain("x") /\ inv[NumInv].profiled = 0
    /\ inv[1].req = "A" /\ inv[1].profiled = 1
    /\ Len(validity["A"].___profilingData) = 1

\* C14: a step appends a profiling record to a context only when
\* enableProfiling is set and the step is the return of an invocation that
\* found this context; with t0 the clock at entry, t2 the clock when the
\* resolver was called and t3 the clock of the step, the record has
\* validation = t2 - t0, execution = t3 - t0 and totalExecution = t3 - t2,
\* all three are >= 0 and validation <= execution.
C14_ProfilingArithmetic ==
    [][\A r \in Requests :
          validity'[r].___profilingData # validity[r].___profilingData
              => /\ config.enableProfiling
                 /\ Len(validity'[r].___profilingData)
                        = Len(validity[r].___profilingData) + 1
                 /\ \E i \in Invocations :
                       LET rec == validity'[r].___profilingData[
                                      Len(validity'[r].___profilingData)].profile
                       IN  /\ inv[i].req = r
                           /\ inv[i].pc = "resolve" /\ inv'[i].pc = "done"
                           /\ rec.name = FieldName(inv[i].field)
                           /\ rec.validation = inv[i].vet - inv[i].pst
                           /\ rec.execution = now - inv[i].pst
                           /\ rec.totalExecution = now - inv[i].vet
                           /\ rec.totalExecution = rec.execution - rec.validation
                           /\ rec.validation >= 0 /\ rec.execution >= 0
                           /\ rec.totalExecution >= 0
                           /\ rec.validation <= rec.execution]_vars

\* a record with validation 1, execution 2 and totalExecution 1 was appended
C14_Witness ==
    /\ config.enableProfiling
    /\ inv[1].pc = "done" /\ inv[1].req = "A" /\ inv[1].profiled = 1
    /\ \E j \in 1..Len(validity["A"].___profilingData) :
          LET rec == validity["A"].___profilingData[j].profile
          IN  rec.validation = 1 /\ rec.execution = 2 /\ rec.totalExecution = 1

\* C15: every call of the middleware calls next() exactly once, whether its
\* assignments succeed or the request or the response object rejects them, so
\* that next() was called once for every request the middleware was called for
\* and never for another; every call of the patched send calls the original
\* send exactly once, with the merged payload when the body parses and carries
\* data and with the body as it was given otherwise.
C15_SendInterception ==
    /\ [](\A r \in Requests :
             /\ response[r].next = response[r].middleware
             /\ response[r].middleware <= 1
             /\ response[r].installed
                    <=> (response[r].middleware = 1 /\ response[r].frozen = "none")
             /\ response[r].sends = IF response[r].sent THEN 1 ELSE 0)
    /\ [][\A r \in Requests :
             /\ response'[r].middleware # response[r].middleware
                   => /\ response'[r].next = response[r].next + 1
                      /\ response'[r].installed = (response[r].frozen = "none")
                      /\ validity'[r].created = (response[r].frozen # "req")
             /\ response'[r].middleware = response[r].middleware
                   => response'[r].next = response[r].next
             /\ (response'[r].sent /\ ~response[r].sent)
                   => LET body == response'[r].body
                          out == response'[r].out
                          c == validity[r]
                      IN  /\ response'[r].sends = response[r].sends + 1
                          /\ IF response[r].installed /\ body.kind = "data"
                             THEN /\ out.kind = "data" /\ out.hasErrors
                                  /\ Len(out.errors) =
                                         Len(body.errors)
                                             + Len(c.___validationResults)
                                             + Len(c.___globalValidationResults)
                             ELSE out = body]_vars

\* the middleware ran once for request A, whose context then collected a
\* violation; the patched send was given a body that parses but carries no
\* data and passed it on unchanged, once, although the function the deprecated
\* wrapExtension(request) returned merges such a payload. Request B's response
\* object rejected the patch: next() was called for it all the same, once, and
\* its body, which carries data, went out unmerged although its context holds
\* a violation
C15_Witness ==
    /\ response["A"].frozen = "none" /\ response["A"].middleware = 1
    /\ response["A"].next = 1 /\ response["A"].installed /\ response["A"].sent
    /\ response["A"].body.kind = "nodata"
    /\ response["A"].out = response["A"].body /\ response["A"].sends = 1
    /\ Len(validity["A"].___validationResults) = 1
    /\ response["A"].extended.kind = "nodata"
    /\ Len(response["A"].extended.errors) = 1
    /\ response["B"].frozen = "res" /\ response["B"].middleware = 1
    /\ response["B"].next = 1 /\ ~response["B"].installed /\ response["B"].sent
    /\ response["B"].body.kind = "data"
    /\ Len(validity["B"].___validationResults) = 1
    /\ response["B"].out = response["B"].body /\ response["B"].sends = 1

\* C16: when wrapResolvers(schema, config) returns, every field with a resolver
\* of every type of the type map that has getFields is marked and carries
\* exactly one interceptor, the call itself having wrapped exactly those of
\* them that were not wrapped before; the fields without a resolver are left
\* alone, and the types without getFields are passed over.
C16_WalkerCoverage ==
    [][(lastWrap' # lastWrap /\ lastWrap'.entity = Schema)
          => /\ \A t \in getTypeMap : HasGetFields(t) =>
                   \A f \in getFields(t) :
                      IF resolve[f]
                      THEN /\ Processed'[f] /\ layers'[f] = 1
                           /\ f \in lastWrap'.wrapped <=> layers[f] = 0
                           /\ f \in lastWrap'.skipped <=> layers[f] = 1
                      ELSE /\ ~Processed'[f] /\ layers'[f] = 0
                           /\ f \notin lastWrap'.wrapped
             /\ lastWrap'.wrapped \cup lastWrap'.skipped
                    = UNION {getFields(t) : t \in {u \in getTypeMap : HasGetFields(u)}}
             /\ resolve' = resolve]_vars

\* a wrapResolvers call on the schema has just wrapped field b, which got its
\* resolver after an earlier call had wrapped field a, and passed over field a
C16_Witness ==
    /\ lastWrap.entity = Schema
    /\ lastWrap.wrapped = {"b"} /\ lastWrap.skipped = {"a"}
    /\ \A f \in Fields : resolve[f] /\ Processed[f] /\ layers[f] = 1

\* the global validators invocation i called for its request, in call order
GlobalCallsBy(i) ==
    LET Mine(e) == e[1] = i
        calls == SelectSeq(globalRun[inv[i].req], Mine)
    IN  [j \in 1..Len(calls) |-> calls[j][2]]

\* C17: within one invocation the validators run one at a time: while global
\* validator k is pending exactly the first k global validators were started
\* and neither a local validator nor the resolver was; while local validator k
\* is pending exactly the first k selected validators were started and the
\* resolver was not; an invocation that found globalResults absent starts its
\* first local validator or the resolver only after all global validators were
\* called and returned; the resolver is called only after every selected
\* local validator was started and returned.
C17_Sequential ==
    \A i \in Invocations :
        (inv[i].pc # "idle" /\ inv[i].req # NoRequest) =>
            /\ inv[i].pc = "global" =>
                  /\ GlobalCallsBy(i) = SubSeq(Lookup("$"), 1, inv[i].k)
                  /\ inv[i].localRun = <<>> /\ inv[i].origCalls = 0
            /\ inv[i].pc = "local" =>
                  /\ inv[i].localRun = SubSeq(inv[i].validators, 1, inv[i].k)
                  /\ inv[i].origCalls = 0
            /\ (variant # "legacy" /\ i = First(inv[i].req)
                  /\ (inv[i].localRun # <<>> \/ inv[i].origCalls > 0))
                   => GlobalCallsBy(i) = Lookup("$")
            /\ inv[i].origCalls > 0 =>
                  /\ inv[i].origCalls = 1
                  /\ inv[i].localRun = inv[i].validators
                  /\ inv[i].pc \in {"resolve", "done", "rejected"}
                  /\ inv[i].threwAt \in {"none", "resolve"}

\* the invocation that made the global run of request A has called g1 and g2,
\* then its local validator, and now awaits the resolver, while the second
\* invocation awaits its local validator
C17_Witness ==
    /\ inv[1].req = "A" /\ inv[1].pc = "resolve"
    /\ GlobalCallsBy(1) = <<"g1", "g2">> /\ inv[1].localRun = <<"v1">>
    /\ inv[2].req = "A" /\ inv[2].pc = "local" /\ inv[2].k = 1

\* C18: an invocation that finds globalResults present does not wait for the
\* global run: in the very step in which it is called it calls its first local
\* validator (or, having none, the original resolver) and makes no global
\* call, also while a global validator of another invocation is pending; only
\* the first invocation of a request is ever at a global validator.
C18_NoWaitForGlobalRun ==
    /\ [](\A i \in Invocations :
             (inv[i].pc # "idle" /\ inv[i].req # NoRequest /\ variant # "legacy"
                /\ i # First(inv[i].req))
                 => inv[i].pc # "global" /\ GlobalCallsBy(i) = <<>>)
    /\ [][\A i \in Invocations :
             (/\ inv[i].pc = "idle" /\ inv'[i].pc # "idle"
              /\ inv'[i].req # NoRequest /\ variant # "legacy"
              /\ validity[inv'[i].req].globalPresent)
                 => /\ inv'[i].pc = IF inv'[i].validators = <<>>
                                    THEN "resolve" ELSE "local"
                    /\ inv'[i].pc = "local" => inv'[i].localRun = <<"v1">>
                    /\ inv'[i].pc = "resolve" => inv'[i].origCalls = 1
                    /\ globalRun' = globalRun
                    /\ validity' = validity]_vars

\* the second invocation of request A has called its local validator and the
\* original resolver and has returned, while the first one still awaits the
\* first global validator
C18_Witness ==
    /\ inv[1].req = "A" /\ inv[1].pc = "global" /\ inv[1].k = 1
    /\ validity["A"].___globalValidationResults = <<>>
    /\ inv[2].req = "A" /\ inv[2].pc = "done"
    /\ inv[2].localRun = <<"v1">> /\ inv[2].origCalls = 1

\* C19: when global validator k threw in invocation i, globalResults of the
\* request stays present and holds exactly what validators 1..k-1 returned,
\* the validators after k are never called for the request, and every other
\* invocation of the request makes no global call: it goes on to its local
\* validators and the original resolver.
C19_FailedGlobalRunNotRetried ==
    \A i \in Invocations :
        inv[i].threwAt = "global" =>
            LET r == inv[i].req IN
            /\ inv[i].pc = "rejected"
            /\ validity[r].globalPresent
            /\ validity[r].___globalValidationResults
                   = NewViolations(i, 0, inv[i].n)
            /\ GlobalCalls(r) = SubSeq(Lookup("$"), 1, inv[i].k)
            /\ GlobalCallsBy(i) = GlobalCalls(r)
            /\ \A j \in OfRequest(r) \ {i} :
                  /\ inv[j].pc \in {"local", "resolve", "done", "rejected"}
                  /\ inv[j].threwAt # "global"
                  /\ inv[j].pc = "local" => inv[j].localRun # <<>>
                  /\ inv[j].pc \in {"resolve", "done"} =>
                        inv[j].localRun = inv[j].validators /\ inv[j].origCalls = 1

\* g1 returned one violation and g2 threw in the first invocation of request
\* A; the second invocation called its local validator and the resolver and
\* returned; globalResults holds g1's violation, and g1 and g2 were called once
C19_Witness ==
    /\ inv[1].req = "A" /\ inv[1].threwAt = "global" /\ inv[1].k = 2
    /\ Len(validity["A"].___globalValidationResults) = 1
    /\ GlobalCalls("A") = <<"g1", "g2">>
    /\ inv[2].req = "A" /\ inv[2].pc = "done" /\ inv[2].localRun = <<"v1">>

\* C20: an invocation in which a global or local validator threw is rejected
\* without calling the original resolver and without starting the validators
\* after the throwing one; what its earlier validators returned stays in
\* localResults and globalResults of its context, and is part of the errors of
\* the merged response of the request.
C20_ValidatorThrowAborts ==
    \A i \in Invocations :
        (variant # "legacy" /\ inv[i].threwAt \in {"global", "local"}) =>
            LET r == inv[i].req IN
            /\ inv[i].pc = "rejected" /\ inv[i].origCalls = 0
            /\ inv[i].raw = NoValue
            /\ inv[i].threwAt = "global" =>
                  /\ inv[i].localRun = <<>>
                  /\ GlobalCallsBy(i) = SubSeq(Lookup("$"), 1, inv[i].k)
            /\ inv[i].threwAt = "local" =>
                  inv[i].localRun = SubSeq(inv[i].validators, 1, inv[i].k)
            /\ From(i, validity[r].___validationResults) = inv[i].returned
            /\ Len(From(i, validity[r].___globalValidationResults))
                   = inv[i].n - Len(inv[i].returned)
            /\ (response[r].sent /\ response[r].installed
                  /\ response[r].body.kind = "data")
                   => /\ Len(From(i, response[r].out.errors)) = inv[i].n
                      /\ \A j \in 1..Len(inv[i].returned) :
                            \E m \in 1..Len(response[r].out.errors) :
                               response[r].out.errors[m]
                                   = [message |-> inv[i].returned[j].message]

\* the second of three selected local validators threw after the first had
\* returned a violation: the resolver was not called, the third validator was
\* not started, and the violation is in the merged response
C20_Witness ==
    /\ inv[1].req = "A" /\ inv[1].threwAt = "local" /\ inv[1].k = 2
    /\ inv[1].validators = <<"v1", "v2", "v1">>
    /\ inv[1].localRun = <<"v1", "v2">> /\ inv[1].origCalls = 0
    /\ Len(inv[1].returned) = 1
    /\ response["A"].sent /\ response["A"].installed
    /\ response["A"].body.kind = "data"
    /\ \E m \in 1..Len(response["A"].out.errors) :
          response["A"].out.errors[m] = [message |-> inv[1].returned[1].message]

\* the invocations of request r that appended a profiling record
Profiled(r) == {i \in OfRequest(r) : inv[i].profiled = 1}

\* C21: with enableProfiling set and a context found, an invocation has
\* appended exactly one profiling record when it returned a value and its
\* arguments carry the field location, and none when it is pending, when a
\* validator or the resolver threw, or when recording failed; a request's
\* context holds one record per such invocation, never more records than
\* invocations of the request that returned a value.
C21_ProfilingRecordCount ==
    /\ \A i \in Invocations :
          (inv[i].pc # "idle" /\ inv[i].req # NoRequest) =>
              /\ inv[i].profiled \in {0, 1}
              /\ inv[i].profiled = 1 <=>
                     /\ variant = "index" /\ config.enableProfiling
                     /\ inv[i].pc = "done" /\ inv[i].ast
              /\ inv[i].cause # NoError => inv[i].profiled = 0
    /\ \A r \in Requests :
          /\ Len(validity[r].___profilingData) = Cardinality(Profiled(r))
          /\ Len(validity[r].___profilingData)
                 <= Cardinality({i \in OfRequest(r) : inv[i].pc = "done"})

\* with profiling enabled, of the two invocations of request A the one that
\* returned left one record and the one whose resolver threw left none
C21_Witness ==
    /\ config.enableProfiling
    /\ inv[1].req = "A" /\ inv[1].pc = "rejected" /\ inv[1].threwAt = "resolve"
    /\ inv[1].ast /\ inv[1].profiled = 0
    /\ inv[2].req = "A" /\ inv[2].pc = "done" /\ inv[2].profiled = 1
    /\ Len(validity["A"].___profilingData) = 1

\* C22: a field without a resolver is never marked and never carries an
\* interceptor, whatever wrapResolvers calls reached it; a wrapResolvers call
\* that reaches a field which has got a resolver and is not marked wraps it;
\* one that reaches a marked field leaves its marker and its one interceptor.
C22_NoResolverUntouched ==
    /\ [](\A f \in Fields : ~resolve[f] => ~Processed[f] /\ layers[f] = 0)
    /\ [][lastWrap' # lastWrap /\ lastWrap'.entity # "none"
             => \A f \in Reached(lastWrap'.entity) :
                   /\ ~resolve[f] =>
                         /\ ~Processed'[f] /\ layers'[f] = 0 /\ ~resolve'[f]
                         /\ f \in lastWrap'.skipped
                   /\ (resolve[f] /\ ~Processed[f]) =>
                         /\ Processed'[f] /\ layers'[f] = 1
                         /\ f \in lastWrap'.wrapped
                   /\ Processed[f] =>
                         /\ Processed'[f] /\ layers'[f] = layers[f]
                         /\ f \in lastWrap'.skipped]_vars

\* the wrapResolvers call on the schema reached field b while it had no
\* resolver and left it unmarked; b has got its resolver since and is still
\* unmarked and without interceptor, for a later call to wrap
C22_Witness ==
    /\ lastWrap.entity = Schema /\ lastWrap.wrapped = {"a"}
    /\ "b" \in lastWrap.skipped
    /\ resolve["b"] /\ ~Processed["b"] /\ layers["b"] = 0
    /\ Processed["a"] /\ layers["a"] = 1

\* C23: when every awaited validator and resolver call returns or throws in
\* the end, every invocation that was called returns or rejects in the end,
\* whatever the other invocations do: its next step never waits for a step of
\* another invocation.
C23_EveryInvocationSettles ==
    \A i \in Invocations :
        (inv[i].pc \notin {"idle", "done", "rejected"})
            ~> (inv[i].pc \in {"done", "rejected"})

\* the invocation that skipped the global run of request A has returned while
\* the invocation that made the run, past g1 and g2, still awaits its local
\* validator
C23_Witness ==
    /\ inv[1].req = "A" /\ inv[1].pc = "local"
    /\ GlobalCalls("A") = <<"g1", "g2">>
    /\ inv[2].req = "A" /\ inv[2].pc = "done"
    /\ GlobalCallsBy(2) = <<>>

====
